---- MODULE Spec2Model ----
(***************************************************************************)
(* Model of src/top.js: class AutoClient (top.gg-voter).                   *)
(*                                                                         *)
(* The program is a single JavaScript event loop.  Every action below is   *)
(* the code that runs between two awaits: an action is enabled when the    *)
(* awaited promise (fetch, connect, page call, timer, inner async call)    *)
(* settles, and it runs the continuation up to the next await.  The        *)
(* answers of the collaborators (credential check, browser backend, page   *)
(* text, error handler) are drawn with \E from their possible outcomes.    *)
(* Accounts are numbered from 0 as in the source (index i of tokenList).   *)
(***************************************************************************)
EXTENDS Integers, Sequences, FiniteSets, TLC

\* ------------------------------------------------------------------ bounds
MaxTokens   == 2      \* longest tokenList explored
MaxProxies  == 2      \* longest proxies list explored
MaxTimeouts == 1      \* connect() calls that lose the 30 s race, in one run
SlowProbeMs == 57500  \* running time of page.evaluate in the multi-account runs
FastProbeMs == 0      \* running time of page.evaluate in the poller runs
AppearOffsetMs == 1250 \* a marker may appear this long into a 2.5 s delay

\* ------------------------------------------------------- program constants
TimeoutMs     == 60000   \* _voteForBot: const timeoutMs = 60_000
ProbeInterval == 2500    \* _waitForVoteStatus: await delay(2500)

Undefined == <<>>        \* JavaScript undefined (proxies[NaN], an unset opts.proxy)
ProxyUrl(k) == <<"proxy", k>>   \* the k-th configured proxy url, a non-empty string

VARIABLES
  tokenList,      \* this.tokenList : sequence of tokens (opaque ids)
  proxies,        \* this.proxies   : sequence of proxy urls
  runInParallel,  \* this.runInParallel
  errorLog,       \* this.errorLog : "absent" | "returns" (never raises) | "mayRaise"
  probeMs,        \* environment: running time of one page.evaluate probe
  stats,          \* this.stats
  pc,             \* autovoteBot(): "init" | "dispatch" | "sleep" | "thrown"
  thrownErr,      \* the error autovoteBot() rejected with
  lastLog,        \* last line autovoteBot() logged: "Starting cycle" / "Cycle complete"
  aborted,        \* the dispatch of the cycle last logged ended by a raised error
  seqI,           \* _sequentialCycle: loop variable i
  cycleP,         \* promise of _sequentialCycle()/_parallelCycle()
  cycleErr,       \* the error that promise rejected with
  wpc,            \* per account: where _handleSingle/_voteForBot is suspended
  proxyArg,       \* per account: the proxy argument of _handleSingle
  optsProxy,      \* per account: opts.proxy handed to connect()
  session,        \* per account: the browser of this cycle's _voteForBot
  ret,            \* per account: completion of _voteForBot pending in finally
  status,         \* per account: result of _waitForVoteStatus
  hs,             \* per account: promise of _handleSingle()
  pp,             \* per account: promise of _handleSingle().catch(...) (parallel)
  err,            \* per account: the error hs / pp rejected with
  workerErr,      \* per account: the error _handleSingle constructed
  outcome,        \* per account: the counter this worker incremented
  handlerCalls,   \* per account: invocations of errorLog in this cycle
  handlerArg,     \* per account: the error errorLog was last invoked with
  el,             \* per account: Date.now() - start in _waitForVoteStatus
  attempts,       \* per account: attempts in _waitForVoteStatus
  anyRaise,       \* per account: some probe of this poll raised
  marker,         \* per account: terminal marker in the page text
  markerAt,       \* per account: elapsed time at which the marker appeared
  raisedSince,    \* per account: a probe raised since the marker appeared
  timeouts,       \* connect() calls that lost the race so far
  orphans,        \* connect() calls still in flight after losing the race
  leaked          \* browsers created by such calls: nobody holds them

cfgVars    == <<tokenList, proxies, runInParallel, errorLog, probeMs>>
mainVars   == <<stats, pc, thrownErr, lastLog, aborted, seqI, cycleP, cycleErr>>
workerVars == <<wpc, proxyArg, optsProxy, session, ret, status, hs, pp, err,
                workerErr, outcome, handlerCalls, handlerArg, handlerArg>>
pollVars   == <<el, attempts, anyRaise, marker, markerAt, raisedSince>>
raceVars   == <<timeouts, orphans, leaked>>
vars       == <<cfgVars, mainVars, workerVars, pollVars, raceVars>>

N        == Len(tokenList)
Accounts == 0 .. (N - 1)

\* ------------------------------------------------------------ constructor
\* constructor(opts): tokenList must be a non-empty array; stats start at zero.
ZeroStats(n) == [total |-> n, success |-> 0, failed |-> 0, invalid |-> 0]

ConfigInit(maxN, ms) ==
  /\ \E n \in 1 .. maxN : tokenList = [k \in 1 .. n |-> k]
  /\ \E m \in 0 .. MaxProxies : proxies = [k \in 1 .. m |-> ProxyUrl(k)]
  /\ runInParallel \in BOOLEAN
  /\ errorLog \in {"absent", "returns", "mayRaise"}
  /\ probeMs = ms

StateInit ==
  /\ stats = ZeroStats(N)
  /\ pc = "init"
  /\ thrownErr = "none"
  /\ lastLog = [kind |-> "none", success |-> 0, failed |-> 0, invalid |-> 0]
  /\ aborted = FALSE
  /\ seqI = 0
  /\ cycleP = "none"
  /\ cycleErr = "none"
  /\ wpc = [i \in Accounts |-> "idle"]
  /\ proxyArg = [i \in Accounts |-> Undefined]
  /\ optsProxy = [i \in Accounts |-> Undefined]
  /\ session = [i \in Accounts |-> "none"]
  /\ ret = [i \in Accounts |-> "none"]
  /\ status = [i \in Accounts |-> "none"]
  /\ hs = [i \in Accounts |-> "none"]
  /\ pp = [i \in Accounts |-> "none"]
  /\ err = [i \in Accounts |-> "none"]
  /\ workerErr = [i \in Accounts |-> "none"]
  /\ outcome = [i \in Accounts |-> "none"]
  /\ handlerCalls = [i \in Accounts |-> 0]
  /\ handlerArg = [i \in Accounts |-> "none"]
  /\ el = [i \in Accounts |-> 0]
  /\ attempts = [i \in Accounts |-> 0]
  /\ anyRaise = [i \in Accounts |-> FALSE]
  /\ marker = [i \in Accounts |-> "none"]
  /\ markerAt = [i \in Accounts |-> 0]
  /\ raisedSince = [i \in Accounts |-> FALSE]
  /\ timeouts = 0
  /\ orphans = 0
  /\ leaked = 0

Init == ConfigInit(MaxTokens, SlowProbeMs) /\ StateInit

\* One account, probes of negligible running time: the poller in detail.
PollerInit == ConfigInit(1, FastProbeMs) /\ StateInit

\* ------------------------------------------------------------ _handleError
\* What one call of _handleError can do: "throw" re-raises err (no handler),
\* "return" is the handler returning, "raise" the handler raising.
HandlerOutcomes ==
  IF errorLog = "absent" THEN {"throw"}
  ELSE IF errorLog = "returns" THEN {"return"}
  ELSE {"return", "raise"}

\* A _handleError that rethrows e after the handler has returned.
HandleErrorRethrows(e, h) == IF h = "raise" THEN "HandlerError" ELSE e

\* A _handleError that wraps the error it re-raises when no handler is set.
HandleErrorWraps(e, h) ==
  IF h = "throw" THEN "WrappedError" ELSE IF h = "raise" THEN "HandlerError" ELSE "none"

\* The error _handleError(e) raises under outcome h ("none": it returns).
HandleError(e, h) ==
  IF h = "throw" THEN e ELSE IF h = "raise" THEN "HandlerError" ELSE "none"

\* Invocations of errorLog made by one call of _handleError.
HandlerInvoked == IF errorLog = "absent" THEN 0 ELSE 1

\* --------------------------------------------------------- proxy assignment
\* this.proxies[i]: the index is not wrapped around the list.
ProxyForNoWrap(i) == IF i < Len(proxies) THEN proxies[i + 1] ELSE Undefined

\* this.proxies[i % this.proxies.length]: with an empty list i % 0 is NaN and
\* proxies[NaN] is undefined.  Sequences are 1-based here, arrays 0-based there.
ProxyFor(i) ==
  IF Len(proxies) = 0 THEN Undefined ELSE proxies[(i % Len(proxies)) + 1]

\* if (proxy) opts.proxy = proxy
OptsFor(p) == IF p # Undefined THEN p ELSE Undefined

\* ------------------------------------------------------------ _handleSingle
\* An end of _handleSingle that counts every error under failed.
FinishErrorsAsFailed(i, counter, e, h) ==
  /\ stats' = [stats EXCEPT ![IF e = "none" THEN counter ELSE "failed"] = @ + 1]
  /\ outcome' = [outcome EXCEPT ![i] = counter]
  /\ workerErr' = [workerErr EXCEPT ![i] = e]
  /\ wpc' = [wpc EXCEPT ![i] = "done"]
  /\ IF e = "none"
       THEN /\ hs' = [hs EXCEPT ![i] = "fulfilled"]
            /\ UNCHANGED <<err, handlerCalls, handlerArg>>
       ELSE /\ handlerCalls' = [handlerCalls EXCEPT ![i] = @ + HandlerInvoked]
            /\ handlerArg' = [handlerArg EXCEPT ![i] = IF HandlerInvoked = 1 THEN e ELSE @]
            /\ err' = [err EXCEPT ![i] = HandleError(e, h)]
            /\ hs' = [hs EXCEPT ![i] =
                        IF HandleError(e, h) = "none" THEN "fulfilled" ELSE "rejected"]

\* The end of _handleSingle for account i: `counter` is incremented, and when
\* e is an error it goes through _handleError with outcome h.
Finish(i, counter, e, h) ==
  /\ stats' = [stats EXCEPT ![counter] = @ + 1]
  /\ outcome' = [outcome EXCEPT ![i] = counter]
  /\ workerErr' = [workerErr EXCEPT ![i] = e]
  /\ wpc' = [wpc EXCEPT ![i] = "done"]
  /\ IF e = "none"
       THEN /\ hs' = [hs EXCEPT ![i] = "fulfilled"]
            /\ UNCHANGED <<err, handlerCalls, handlerArg>>
       ELSE /\ handlerCalls' = [handlerCalls EXCEPT ![i] = @ + HandlerInvoked]
            /\ handlerArg' = [handlerArg EXCEPT ![i] = IF HandlerInvoked = 1 THEN e ELSE @]
            /\ err' = [err EXCEPT ![i] = HandleError(e, h)]
            /\ hs' = [hs EXCEPT ![i] =
                        IF HandleError(e, h) = "none" THEN "fulfilled" ELSE "rejected"]

\* The fetch of the credential check settles: res.ok, !res.ok, or it raised.
\* A valid token goes on into _voteForBot up to await Promise.race([connect..]).
ValidateDone(i) ==
  /\ wpc[i] = "validating"
  /\ \E res \in {"ok", "notok", "raise"} :
       IF res = "ok"
         THEN /\ wpc' = [wpc EXCEPT ![i] = "connecting"]
              /\ optsProxy' = [optsProxy EXCEPT ![i] = OptsFor(proxyArg[i])]
              /\ UNCHANGED <<stats, outcome, workerErr, hs, err, handlerCalls, handlerArg>>
         ELSE /\ \E h \in HandlerOutcomes : Finish(i, "invalid", "InvalidToken", h)
              /\ UNCHANGED optsProxy
  /\ UNCHANGED <<cfgVars, pc, thrownErr, lastLog, aborted, seqI, cycleP, cycleErr,
                 proxyArg, session, ret, status, pp, pollVars, raceVars>>

\* -------------------------------------------------------------- _voteForBot
\* connect(opts) resolves before the 30 s timer: browser and page are set,
\* and the code goes on to the first page call.
ConnectResolve(i) ==
  /\ wpc[i] = "connecting"
  /\ wpc' = [wpc EXCEPT ![i] = "auth"]
  /\ session' = [session EXCEPT ![i] = "open"]
  /\ UNCHANGED <<cfgVars, mainVars, proxyArg, optsProxy, ret, status, hs, pp, err,
                 workerErr, outcome, handlerCalls, handlerArg, pollVars, raceVars>>

\* connect(opts) rejects before the timer: catch rethrows, finally finds no
\* browser, and _handleSingle's catch counts the failure.
ConnectReject(i) ==
  /\ wpc[i] = "connecting"
  /\ \E h \in HandlerOutcomes : Finish(i, "failed", "TokenError", h)
  /\ UNCHANGED <<cfgVars, pc, thrownErr, lastLog, aborted, seqI, cycleP, cycleErr,
                 proxyArg, optsProxy, session, ret, status, pp, pollVars, raceVars>>

\* The 30 s timer rejects the race first.  The worker fails as above; the
\* connect() call is not cancelled and stays in flight.
ConnectTimeout(i) ==
  /\ wpc[i] = "connecting"
  /\ timeouts < MaxTimeouts
  /\ timeouts' = timeouts + 1
  /\ orphans' = orphans + 1
  /\ \E h \in HandlerOutcomes : Finish(i, "failed", "TokenError", h)
  /\ UNCHANGED <<cfgVars, pc, thrownErr, lastLog, aborted, seqI, cycleP, cycleErr,
                 proxyArg, optsProxy, session, ret, status, pp, pollVars, leaked>>

\* A connect() that lost the race settles later: a browser nobody references,
\* or a rejection nobody observes.
LateConnect ==
  /\ orphans > 0
  /\ orphans' = orphans - 1
  /\ \E r \in {"browser", "rejects"} :
       leaked' = IF r = "browser" THEN leaked + 1 ELSE leaked
  /\ UNCHANGED <<cfgVars, mainVars, workerVars, pollVars, timeouts>>

\* A _voteForBot that raises an error where it should return false.
ToFinallyFalseThrows(i, r) ==
  /\ wpc' = [wpc EXCEPT ![i] = "closing"]
  /\ ret' = [ret EXCEPT ![i] = IF r = "false" THEN "throw" ELSE r]

\* catch { throw err } finally { if (browser) await browser.close() }
ToFinally(i, r) ==
  /\ wpc' = [wpc EXCEPT ![i] = "closing"]
  /\ ret' = [ret EXCEPT ![i] = r]

\* A login flow outside the try/finally: its error goes straight to
\* _handleSingle's catch and the browser is not closed.
AuthDoneSkipsClose(i) ==
  /\ wpc[i] = "auth"
  /\ \E r \in {"loggedIn", "raise", "notLoggedIn"} :
       IF r = "loggedIn"
         THEN /\ wpc' = [wpc EXCEPT ![i] = "gotoVote"]
              /\ UNCHANGED <<stats, hs, err, workerErr, outcome, handlerCalls, handlerArg>>
         ELSE \E h \in HandlerOutcomes : Finish(i, "failed", "TokenError", h)
  /\ UNCHANGED <<cfgVars, pc, thrownErr, lastLog, aborted, seqI, cycleP, cycleErr,
                 proxyArg, optsProxy, session, ret, status, pp, pollVars, raceVars>>

\* Lines 204-244: token injection, top.gg, login click, Discord authorization,
\* the isLoggedIn check.  Any of the page calls may raise, and a page that
\* still shows "Login" raises "Authorization failed".
AuthDone(i) ==
  /\ wpc[i] = "auth"
  /\ \E r \in {"loggedIn", "raise", "notLoggedIn"} :
       IF r = "loggedIn"
         THEN wpc' = [wpc EXCEPT ![i] = "gotoVote"] /\ UNCHANGED ret
         ELSE ToFinally(i, "throw")
  /\ UNCHANGED <<cfgVars, mainVars, proxyArg, optsProxy, session, status, hs, pp, err,
                 workerErr, outcome, handlerCalls, handlerArg, pollVars, raceVars>>

\* await page.goto(voteUrl) settles; on success _waitForVoteStatus starts:
\* start = Date.now(), the loop test holds, attempts++ and the first probe.
GotoVoteDone(i) ==
  /\ wpc[i] = "gotoVote"
  /\ \E r \in {"loaded", "raise"} :
       IF r = "loaded"
         THEN /\ wpc' = [wpc EXCEPT ![i] = "probing"]
              /\ attempts' = [attempts EXCEPT ![i] = 1]
              /\ UNCHANGED ret
         ELSE ToFinally(i, "throw") /\ UNCHANGED attempts
  /\ UNCHANGED <<cfgVars, mainVars, proxyArg, optsProxy, session, status, hs, pp, err,
                 workerErr, outcome, handlerCalls, handlerArg, el, anyRaise, marker, markerAt,
                 raisedSince, raceVars>>

\* ------------------------------------------------------- _waitForVoteStatus
\* A page function that looks for "You can vote now!" only.
ClassifyVoteOnly(m) == IF m = "vote" THEN "vote" ELSE "wait"

\* The probe's page function: the text is searched for "You can vote now!",
\* then for "You have already voted".
Classify(m) ==
  IF m = "vote" THEN "vote" ELSE IF m = "already" THEN "already" ELSE "wait"

\* A loop test that still passes at the deadline itself.
InBudgetInclusive(elapsed) == elapsed <= TimeoutMs

\* while (Date.now() - start < timeoutMs)
InBudget(elapsed) == elapsed < TimeoutMs

\* The page shows a terminal marker from now on: at the current instant, or,
\* while a delay is running, some time into it.
MarkerAppears(i) ==
  /\ wpc[i] \in {"probing", "pollDelay"}
  /\ marker[i] = "none"
  /\ \E m \in {"vote", "already"} : marker' = [marker EXCEPT ![i] = m]
  /\ \E o \in {0, AppearOffsetMs} :
       /\ o > 0 => wpc[i] = "pollDelay"
       /\ markerAt' = [markerAt EXCEPT ![i] = el[i] + o]
  /\ raisedSince' = [raisedSince EXCEPT ![i] = FALSE]
  /\ UNCHANGED <<cfgVars, mainVars, workerVars, el, attempts, anyRaise, raceVars>>

\* A loop that takes its 2.5 s delay before it looks at the probe's result.
ProbeElapsedAfterDelay(elapsed) == elapsed + probeMs + ProbeInterval

\* Date.now() - start when a probe begun at `elapsed` hands its result to the
\* test "if (st !== 'wait') return st", which comes before any delay.
ProbeElapsed(elapsed) == elapsed + probeMs

\* await page.evaluate(...) of one probe settles, probeMs after it started.
\* "vote"/"already" return from the poller into _voteForBot; "wait" and a
\* raised probe go to await delay(2500).
ProbeDone(i) ==
  /\ wpc[i] = "probing"
  /\ el' = [el EXCEPT ![i] = ProbeElapsed(@)]
  /\ \E r \in {"read", "raise"} :
       LET st == IF r = "read" THEN Classify(marker[i]) ELSE "wait" IN
       /\ anyRaise' = [anyRaise EXCEPT ![i] = @ \/ r = "raise"]
       /\ raisedSince' = [raisedSince EXCEPT ![i] =
                            @ \/ (r = "raise" /\ marker[i] # "none")]
       /\ IF st = "wait"
            THEN /\ wpc' = [wpc EXCEPT ![i] = "pollDelay"]
                 /\ UNCHANGED <<status, ret>>
            ELSE /\ status' = [status EXCEPT ![i] = st]
                 /\ IF st = "vote"
                      THEN wpc' = [wpc EXCEPT ![i] = "settle"] /\ UNCHANGED ret
                      ELSE ToFinally(i, "false")
  /\ UNCHANGED <<cfgVars, mainVars, proxyArg, optsProxy, session, hs, pp, err,
                 workerErr, outcome, handlerCalls, handlerArg, attempts, marker, markerAt,
                 raceVars>>

\* await delay(2500) elapses: the loop test is made again; past the budget
\* the poller returns "timeout" and _voteForBot returns false.
PollDelayDone(i) ==
  /\ wpc[i] = "pollDelay"
  /\ el' = [el EXCEPT ![i] = @ + ProbeInterval]
  /\ IF InBudget(el[i] + ProbeInterval)
       THEN /\ attempts' = [attempts EXCEPT ![i] = @ + 1]
            /\ wpc' = [wpc EXCEPT ![i] = "probing"]
            /\ UNCHANGED <<status, ret>>
       ELSE /\ status' = [status EXCEPT ![i] = "timeout"]
            /\ ToFinally(i, "false")
            /\ UNCHANGED attempts
  /\ UNCHANGED <<cfgVars, mainVars, proxyArg, optsProxy, session, hs, pp, err,
                 workerErr, outcome, handlerCalls, handlerArg, anyRaise, marker, markerAt,
                 raisedSince, raceVars>>

\* ------------------------------------------------- _voteForBot, status "vote"
\* await delay(3000) elapses; the click is sent with page.evaluate.
SettleDone(i) ==
  /\ wpc[i] = "settle"
  /\ wpc' = [wpc EXCEPT ![i] = "clicking"]
  /\ UNCHANGED <<cfgVars, mainVars, proxyArg, optsProxy, session, ret, status, hs, pp,
                 err, workerErr, outcome, handlerCalls, handlerArg, pollVars, raceVars>>

\* The click's page.evaluate settles: then await delay(5000), or it raised.
ClickDone(i) ==
  /\ wpc[i] = "clicking"
  /\ \E r \in {"clicked", "raise"} :
       IF r = "clicked"
         THEN wpc' = [wpc EXCEPT ![i] = "registering"] /\ UNCHANGED ret
         ELSE ToFinally(i, "throw")
  /\ UNCHANGED <<cfgVars, mainVars, proxyArg, optsProxy, session, status, hs, pp, err,
                 workerErr, outcome, handlerCalls, handlerArg, pollVars, raceVars>>

\* await delay(5000) elapses: return true, through finally.
RegisterDone(i) ==
  /\ wpc[i] = "registering"
  /\ ToFinally(i, "true")
  /\ UNCHANGED <<cfgVars, mainVars, proxyArg, optsProxy, session, status, hs, pp, err,
                 workerErr, outcome, handlerCalls, handlerArg, pollVars, raceVars>>

\* A finally whose failed close is not caught: it replaces what was pending
\* and reaches _handleSingle's catch.
CloseDoneRethrows(i) ==
  /\ wpc[i] = "closing"
  /\ \E c \in {"closed", "closeFailed"} :
       /\ session' = [session EXCEPT ![i] = c]
       /\ IF c = "closeFailed"
            THEN \E h \in HandlerOutcomes : Finish(i, "failed", "TokenError", h)
          ELSE IF ret[i] = "true" THEN Finish(i, "success", "none", "return")
          ELSE IF ret[i] = "false" THEN Finish(i, "failed", "none", "return")
          ELSE \E h \in HandlerOutcomes : Finish(i, "failed", "TokenError", h)
  /\ ret' = [ret EXCEPT ![i] = "none"]
  /\ el' = [el EXCEPT ![i] = 0]
  /\ attempts' = [attempts EXCEPT ![i] = 0]
  /\ anyRaise' = [anyRaise EXCEPT ![i] = FALSE]
  /\ marker' = [marker EXCEPT ![i] = "none"]
  /\ markerAt' = [markerAt EXCEPT ![i] = 0]
  /\ raisedSince' = [raisedSince EXCEPT ![i] = FALSE]
  /\ UNCHANGED <<cfgVars, pc, thrownErr, lastLog, aborted, seqI, cycleP, cycleErr,
                 proxyArg, optsProxy, status, pp, raceVars>>

\* await browser.close() settles (a raised close is logged and dropped), then
\* _voteForBot completes with what was pending and _handleSingle counts it.
\* The page and the locals of _voteForBot/_waitForVoteStatus are gone.
CloseDone(i) ==
  /\ wpc[i] = "closing"
  /\ \E c \in {"closed", "closeFailed"} : session' = [session EXCEPT ![i] = c]
  /\ IF ret[i] = "true" THEN Finish(i, "success", "none", "return")
     ELSE IF ret[i] = "false" THEN Finish(i, "failed", "none", "return")
     ELSE \E h \in HandlerOutcomes : Finish(i, "failed", "TokenError", h)
  /\ ret' = [ret EXCEPT ![i] = "none"]
  /\ el' = [el EXCEPT ![i] = 0]
  /\ attempts' = [attempts EXCEPT ![i] = 0]
  /\ anyRaise' = [anyRaise EXCEPT ![i] = FALSE]
  /\ marker' = [marker EXCEPT ![i] = "none"]
  /\ markerAt' = [markerAt EXCEPT ![i] = 0]
  /\ raisedSince' = [raisedSince EXCEPT ![i] = FALSE]
  /\ UNCHANGED <<cfgVars, pc, thrownErr, lastLog, aborted, seqI, cycleP, cycleErr,
                 proxyArg, optsProxy, status, pp, raceVars>>

\* -------------------------------------------------------------- autovoteBot
\* A cycle function that starts every account at once in either mode.
LaunchSetAll == Accounts

\* The accounts whose _handleSingle is called before the cycle function first
\* awaits: the first one in _sequentialCycle's for loop, all of them in
\* _parallelCycle's map.
LaunchSet == IF runInParallel THEN Accounts ELSE {0}

\* A loop whose body runs once: nothing follows the first cooldown.
BeginCycleOnce ==
  /\ pc = "init"
  /\ pc' = "dispatch"
  /\ lastLog' = [kind |-> "start", success |-> stats.success,
                 failed |-> stats.failed, invalid |-> stats.invalid]
  /\ aborted' = FALSE
  /\ seqI' = 0
  /\ cycleP' = "pending"
  /\ cycleErr' = "none"
  /\ LET launch == LaunchSet IN
       /\ wpc' = [i \in Accounts |-> IF i \in launch THEN "validating" ELSE "idle"]
       /\ proxyArg' = [i \in Accounts |->
                         IF i \in launch THEN ProxyFor(i) ELSE Undefined]
       /\ hs' = [i \in Accounts |-> IF i \in launch THEN "pending" ELSE "none"]
       /\ pp' = [i \in Accounts |-> IF runInParallel THEN "pending" ELSE "none"]
  /\ optsProxy' = [i \in Accounts |-> Undefined]
  /\ session' = [i \in Accounts |-> "none"]
  /\ ret' = [i \in Accounts |-> "none"]
  /\ status' = [i \in Accounts |-> "none"]
  /\ err' = [i \in Accounts |-> "none"]
  /\ workerErr' = [i \in Accounts |-> "none"]
  /\ outcome' = [i \in Accounts |-> "none"]
  /\ handlerCalls' = [i \in Accounts |-> 0]
  /\ handlerArg' = [i \in Accounts |-> "none"]
  /\ el' = [i \in Accounts |-> 0]
  /\ attempts' = [i \in Accounts |-> 0]
  /\ anyRaise' = [i \in Accounts |-> FALSE]
  /\ marker' = [i \in Accounts |-> "none"]
  /\ markerAt' = [i \in Accounts |-> 0]
  /\ raisedSince' = [i \in Accounts |-> FALSE]
  /\ UNCHANGED <<cfgVars, stats, thrownErr, raceVars>>

\* The top of the while loop, entered by the call of autovoteBot() and again
\* when delay(cooldown) elapses: "Starting cycle" is logged and the cycle
\* function runs up to its first await.  _sequentialCycle starts account 0,
\* _parallelCycle maps over every account; each _handleSingle runs up to its
\* fetch.
BeginCycle ==
  /\ pc \in {"init", "sleep"}
  /\ pc' = "dispatch"
  /\ lastLog' = [kind |-> "start", success |-> stats.success,
                 failed |-> stats.failed, invalid |-> stats.invalid]
  /\ aborted' = FALSE
  /\ seqI' = 0
  /\ cycleP' = "pending"
  /\ cycleErr' = "none"
  /\ LET launch == LaunchSet IN
       /\ wpc' = [i \in Accounts |-> IF i \in launch THEN "validating" ELSE "idle"]
       /\ proxyArg' = [i \in Accounts |->
                         IF i \in launch THEN ProxyFor(i) ELSE Undefined]
       /\ hs' = [i \in Accounts |-> IF i \in launch THEN "pending" ELSE "none"]
       /\ pp' = [i \in Accounts |-> IF runInParallel THEN "pending" ELSE "none"]
  /\ optsProxy' = [i \in Accounts |-> Undefined]
  /\ session' = [i \in Accounts |-> "none"]
  /\ ret' = [i \in Accounts |-> "none"]
  /\ status' = [i \in Accounts |-> "none"]
  /\ err' = [i \in Accounts |-> "none"]
  /\ workerErr' = [i \in Accounts |-> "none"]
  /\ outcome' = [i \in Accounts |-> "none"]
  /\ handlerCalls' = [i \in Accounts |-> 0]
  /\ handlerArg' = [i \in Accounts |-> "none"]
  /\ el' = [i \in Accounts |-> 0]
  /\ attempts' = [i \in Accounts |-> 0]
  /\ anyRaise' = [i \in Accounts |-> FALSE]
  /\ marker' = [i \in Accounts |-> "none"]
  /\ markerAt' = [i \in Accounts |-> 0]
  /\ raisedSince' = [i \in Accounts |-> FALSE]
  /\ UNCHANGED <<cfgVars, stats, thrownErr, raceVars>>

\* _sequentialCycle: await this._handleSingle(...) of account i settles.  A
\* rejection goes to the catch and _handleError; if that raises the cycle
\* rejects, otherwise the loop goes on to account i+1 or returns.
SeqContinue ==
  /\ ~runInParallel
  /\ pc = "dispatch"
  /\ cycleP = "pending"
  /\ wpc[seqI] = "done"
  /\ \E h \in HandlerOutcomes :
       LET e == IF hs[seqI] = "rejected" THEN HandleError(err[seqI], h) ELSE "none" IN
       /\ handlerCalls' = [handlerCalls EXCEPT ![seqI] =
                             IF hs[seqI] = "rejected" THEN @ + HandlerInvoked ELSE @]
       /\ handlerArg' = [handlerArg EXCEPT ![seqI] =
                           IF hs[seqI] = "rejected" /\ HandlerInvoked = 1
                             THEN err[seqI] ELSE @]
       /\ IF e # "none"
            THEN /\ cycleP' = "rejected"
                 /\ cycleErr' = e
                 /\ UNCHANGED <<seqI, wpc, proxyArg, hs>>
            ELSE /\ seqI' = seqI + 1
                 /\ cycleErr' = "none"
                 /\ IF seqI + 1 < N
                      THEN /\ wpc' = [wpc EXCEPT ![seqI + 1] = "validating"]
                           /\ proxyArg' = [proxyArg EXCEPT ![seqI + 1] = ProxyFor(seqI + 1)]
                           /\ hs' = [hs EXCEPT ![seqI + 1] = "pending"]
                           /\ UNCHANGED cycleP
                      ELSE /\ cycleP' = "fulfilled"
                           /\ UNCHANGED <<wpc, proxyArg, hs>>
  /\ UNCHANGED <<cfgVars, stats, pc, thrownErr, lastLog, aborted, optsProxy, session,
                 ret, status, pp, err, workerErr, outcome, pollVars, raceVars>>

\* _parallelCycle: the .catch(...) attached to _handleSingle of account i runs
\* when that promise settles; a rejection goes through _handleError.
ParCatch(i) ==
  /\ runInParallel
  /\ wpc[i] = "done"
  /\ pp[i] = "pending"
  /\ \E h \in HandlerOutcomes :
       LET e == IF hs[i] = "rejected" THEN HandleError(err[i], h) ELSE "none" IN
       /\ handlerCalls' = [handlerCalls EXCEPT ![i] =
                             IF hs[i] = "rejected" THEN @ + HandlerInvoked ELSE @]
       /\ handlerArg' = [handlerArg EXCEPT ![i] =
                           IF hs[i] = "rejected" /\ HandlerInvoked = 1 THEN err[i] ELSE @]
       /\ err' = [err EXCEPT ![i] = e]
       /\ pp' = [pp EXCEPT ![i] = IF e = "none" THEN "fulfilled" ELSE "rejected"]
  /\ UNCHANGED <<cfgVars, mainVars, wpc, proxyArg, optsProxy, session, ret, status, hs,
                 workerErr, outcome, pollVars, raceVars>>

\* A wait that ends with the first promise to settle (Promise.race/any).
ParAnySettled ==
  /\ runInParallel
  /\ pc = "dispatch"
  /\ cycleP = "pending"
  /\ \E i \in Accounts : pp[i] \in {"fulfilled", "rejected"}
  /\ cycleP' = "fulfilled"
  /\ UNCHANGED <<cfgVars, stats, pc, thrownErr, lastLog, aborted, seqI, cycleErr,
                 workerVars, pollVars, raceVars>>

\* await Promise.allSettled(promises): resolves once every promise settled,
\* whatever way; _parallelCycle then returns.
ParAllSettled ==
  /\ runInParallel
  /\ pc = "dispatch"
  /\ cycleP = "pending"
  /\ \A i \in Accounts : pp[i] \in {"fulfilled", "rejected"}
  /\ cycleP' = "fulfilled"
  /\ UNCHANGED <<cfgVars, stats, pc, thrownErr, lastLog, aborted, seqI, cycleErr,
                 workerVars, pollVars, raceVars>>

\* A reset that leaves the failed counter alone.
ResetStatsKeepsFailed(st) == [st EXCEPT !.success = 0, !.invalid = 0]

\* A reset that leaves the invalid counter alone.
ResetStatsKeepsInvalid(st) == [st EXCEPT !.success = 0, !.failed = 0]

\* _resetStats()
ResetStats(st) == [st EXCEPT !.success = 0, !.failed = 0, !.invalid = 0]

\* autovoteBot: the await of the cycle settles.  A rejected cycle goes to the
\* catch and _handleError, which may throw out of autovoteBot.  Otherwise
\* "Cycle complete" is logged, the stats are reset and delay(cooldown) starts.
AfterDispatch ==
  /\ pc = "dispatch"
  /\ cycleP \in {"fulfilled", "rejected"}
  /\ \E h \in HandlerOutcomes :
       LET e == IF cycleP = "rejected" THEN HandleError(cycleErr, h) ELSE "none" IN
       /\ handlerCalls' =
            IF cycleP = "rejected"
              THEN [handlerCalls EXCEPT ![seqI] = @ + HandlerInvoked]
              ELSE handlerCalls
       /\ handlerArg' =
            IF cycleP = "rejected" /\ HandlerInvoked = 1
              THEN [handlerArg EXCEPT ![seqI] = cycleErr]
              ELSE handlerArg
       /\ IF e # "none"
            THEN /\ pc' = "thrown"
                 /\ thrownErr' = e
                 /\ UNCHANGED <<stats, lastLog, aborted>>
            ELSE /\ lastLog' = [kind |-> "complete", success |-> stats.success,
                                failed |-> stats.failed, invalid |-> stats.invalid]
                 /\ aborted' = (cycleP = "rejected")
                 /\ stats' = ResetStats(stats)
                 /\ pc' = "sleep"
                 /\ UNCHANGED thrownErr
  /\ UNCHANGED <<cfgVars, seqI, cycleP, cycleErr, wpc, proxyArg, optsProxy, session,
                 ret, status, hs, pp, err, workerErr, outcome, pollVars, raceVars>>

\* ---------------------------------------------------------- specifications
\* Some continuation of account i's worker.
WorkerStep(i) ==
  \/ ValidateDone(i)
  \/ ConnectResolve(i)
  \/ ConnectReject(i)
  \/ ConnectTimeout(i)
  \/ AuthDone(i)
  \/ GotoVoteDone(i)
  \/ MarkerAppears(i)
  \/ ProbeDone(i)
  \/ PollDelayDone(i)
  \/ SettleDone(i)
  \/ ClickDone(i)
  \/ RegisterDone(i)
  \/ CloseDone(i)

Next ==
  \/ BeginCycle
  \/ \E i \in Accounts : ValidateDone(i)
  \/ \E i \in Accounts : ConnectResolve(i)
  \/ \E i \in Accounts : ConnectReject(i)
  \/ \E i \in Accounts : ConnectTimeout(i)
  \/ \E i \in Accounts : AuthDone(i)
  \/ \E i \in Accounts : GotoVoteDone(i)
  \/ \E i \in Accounts : MarkerAppears(i)
  \/ \E i \in Accounts : ProbeDone(i)
  \/ \E i \in Accounts : PollDelayDone(i)
  \/ \E i \in Accounts : SettleDone(i)
  \/ \E i \in Accounts : ClickDone(i)
  \/ \E i \in Accounts : RegisterDone(i)
  \/ \E i \in Accounts : CloseDone(i)
  \/ \E i \in Accounts : ParCatch(i)
  \/ LateConnect
  \/ SeqContinue
  \/ ParAllSettled
  \/ AfterDispatch

Spec == Init /\ [][Next]_vars

PollerSpec == PollerInit /\ [][Next]_vars

\* Normal operation: the handler never raises.
LiveInit == Init /\ errorLog = "returns"

\* Every external call eventually returns or raises, every delay elapses and
\* the event loop runs a continuation that is ready: each account's worker,
\* each .catch, and each step of the cycle function and of the loop is taken
\* if it stays enabled.
Fairness ==
  /\ \A i \in 0 .. (MaxTokens - 1) :
       /\ WF_vars(i \in Accounts /\ WorkerStep(i))
       /\ WF_vars(i \in Accounts /\ ParCatch(i))
  /\ WF_vars(BeginCycle)
  /\ WF_vars(SeqContinue)
  /\ WF_vars(ParAllSettled)
  /\ WF_vars(AfterDispatch)

LiveSpec == LiveInit /\ [][Next]_vars /\ Fairness

\* ------------------------------------------------------------------ claims
Sum(r) == r.success + r.failed + r.invalid

Counted(c) == Cardinality({i \in Accounts : outcome[i] = c})

AllDone == \A i \in Accounts : wpc[i] = "done"

\* C1: in both modes and for every handler configuration the three counters
\* never add up to more than total, each counter is the number of accounts
\* that incremented it in this cycle, and the "Cycle complete" line of a cycle
\* whose dispatch did not end by a raised error shows counters that add up to
\* total, every account having incremented exactly one of them.
C1_StatsInvariant ==
  /\ Sum(stats) <= stats.total
  /\ stats.total = N
  /\ pc = "dispatch" =>
       /\ stats.success = Counted("success")
       /\ stats.failed = Counted("failed")
       /\ stats.invalid = Counted("invalid")
  /\ (lastLog.kind = "complete" /\ ~aborted) =>
       /\ Sum(lastLog) = stats.total
       /\ \A i \in Accounts : outcome[i] # "none"
       /\ lastLog.success = Counted("success")
       /\ lastLog.failed = Counted("failed")
       /\ lastLog.invalid = Counted("invalid")

C1_Witness ==
  /\ lastLog.kind = "complete"
  /\ ~aborted
  /\ N = 2
  /\ lastLog.success = 1
  /\ lastLog.failed + lastLog.invalid = 1
  /\ timeouts = 1

\* C2: with no error handler, in serial and in concurrent mode alike, once a
\* per-account error was raised the loop stops: the cooldown sleep is never
\* reached in a cycle in which a worker raised an error.
C2_NoHandlerErrorStopsLoop ==
  (errorLog = "absent" /\ \E i \in Accounts : workerErr[i] # "none")
    => pc # "sleep"

\* C3: with a handler that never raises no per-account error stops the loop:
\* autovoteBot never throws, no worker or cycle promise rejects, the failing
\* account is counted as invalid (rejected credential) or failed (error in
\* the browser session), the loop is never stuck, and the cooldown is reached
\* only after "Cycle complete" was logged for all accounts and the counters
\* were reset.
C3_HandlerAbsorbs ==
  errorLog = "returns" =>
    /\ pc # "thrown"
    /\ cycleP # "rejected"
    /\ \A i \in Accounts :
         /\ hs[i] # "rejected"
         /\ pp[i] # "rejected"
         /\ workerErr[i] = "InvalidToken" => outcome[i] = "invalid"
         /\ workerErr[i] = "TokenError" => outcome[i] = "failed"
    /\ pc = "dispatch" => ENABLED Next
    /\ pc = "sleep" =>
         /\ AllDone
         /\ lastLog.kind = "complete"
         /\ ~aborted
         /\ Sum(lastLog) = N
         /\ Sum(stats) = 0

C3_Witness ==
  /\ errorLog = "returns"
  /\ pc = "sleep"
  /\ N = 2
  /\ workerErr[0] = "InvalidToken"
  /\ workerErr[1] = "TokenError"
  /\ lastLog.invalid = 1
  /\ lastLog.failed = 1

\* C4: in serial mode the worker of account i+1 has not started while the
\* worker of account i is not Done with its browser closed; and once the loop
\* has gone past an account whose failure the handler absorbed, the next
\* account has been started.
C4_SerialOrder ==
  ~runInParallel =>
    \A i \in Accounts :
      (i + 1) \in Accounts =>
        /\ wpc[i + 1] # "idle" => (wpc[i] = "done" /\ session[i] # "open")
        /\ (seqI > i /\ workerErr[i] # "none") => wpc[i + 1] # "idle"
        /\ (pc = "dispatch" /\ cycleP = "pending" /\ seqI = i + 1)
             => wpc[i + 1] # "idle"

C4_Witness ==
  /\ ~runInParallel
  /\ N = 2
  /\ workerErr[0] = "TokenError"
  /\ session[0] = "closed"
  /\ handlerCalls[0] >= 1
  /\ wpc[1] = "auth"

\* C5: in concurrent mode every worker is started by the dispatch itself, the
\* "Cycle complete" log and the cooldown come only after every worker is Done
\* and every promise settled, and a worker that is neither idle nor Done can
\* always take its next step, whatever became of its siblings.
C5_ParallelSettles ==
  runInParallel =>
    /\ pc = "dispatch" => \A i \in Accounts : wpc[i] # "idle"
    /\ (pc = "sleep" \/ lastLog.kind = "complete" \/ cycleP = "fulfilled") =>
         /\ AllDone
         /\ \A i \in Accounts : pp[i] \in {"fulfilled", "rejected"}
    /\ \A j \in Accounts : wpc[j] \notin {"idle", "done"} => ENABLED WorkerStep(j)
    /\ \A j \in Accounts : (wpc[j] = "done" /\ pp[j] = "pending") => ENABLED ParCatch(j)

C5_Witness ==
  /\ runInParallel
  /\ N = 2
  /\ pc = "sleep"
  /\ pp[0] = "rejected"
  /\ pp[1] = "fulfilled"
  /\ outcome[1] = "success"

\* C6: once a worker has reached Done no browser created for it is open:
\* neither the one its _voteForBot held, nor one created by a connect() call
\* that lost the race against the connection timeout.
C6_SessionsClosed ==
  /\ \A i \in Accounts : wpc[i] = "done" => session[i] # "open"
  /\ leaked = 0

\* The poller of account i has returned and its page is still there.
Returned(i) ==
  /\ status[i] # "none"
  /\ wpc[i] \in {"settle", "clicking", "registering", "closing"}

\* The most probes one call can make: one per started 2.5 s of the budget.
MaxProbes == (TimeoutMs + ProbeInterval - 1) \div ProbeInterval

\* C7: the poller makes a bounded number of probes and can always go on until
\* it returns; while it runs it has no result, and it returns "vote",
\* "already" or, with the budget used up and no probe having classified the
\* page, "timeout"; a raised probe leads to the delay like a "wait" result,
\* and _voteForBot never raises out of the poller: after a raised probe it
\* can only fail later, past a "vote" result.
C7_PollerTerminates ==
  \A i \in Accounts :
    /\ attempts[i] <= MaxProbes
    /\ wpc[i] \in {"probing", "pollDelay"} =>
         /\ status[i] = "none"
         /\ attempts[i] >= 1
         /\ ENABLED (ProbeDone(i) \/ PollDelayDone(i))
    /\ Returned(i) =>
         /\ status[i] \in {"vote", "already", "timeout"}
         /\ status[i] = "timeout" =>
              /\ ~InBudget(el[i])
              /\ ret[i] = "false"
              /\ wpc[i] = "closing"
    /\ (anyRaise[i] /\ ret[i] = "throw") => status[i] = "vote"

C7_Witness ==
  /\ Returned(0)
  /\ status[0] = "timeout"
  /\ anyRaise[0]
  /\ attempts[0] = MaxProbes

PollDelays(i) == (el[i] - attempts[i] * probeMs) \div ProbeInterval

\* Five "wait" results and then "vote", no probe raising.
FiveWaitsThenVote(i) ==
  /\ wpc[i] = "settle"
  /\ status[i] = "vote"
  /\ attempts[i] = 6
  /\ ~anyRaise[i]

\* C9 as stated: "vote" comes on the sixth probe after six delays, not
\* before six probe intervals have elapsed.
C9_SixIntervals ==
  \A i \in Accounts :
    FiveWaitsThenVote(i) =>
      /\ PollDelays(i) = 6
      /\ el[i] >= 6 * ProbeInterval

\* C9 amended: "vote" comes on the sixth probe after exactly five delays:
\* five probe intervals and the running time of the six probes have elapsed.
C9_FiveIntervals ==
  \A i \in Accounts :
    FiveWaitsThenVote(i) =>
      /\ PollDelays(i) = 5
      /\ el[i] = 5 * ProbeInterval + 6 * probeMs

C9_Witness == FiveWaitsThenVote(0) /\ markerAt[0] = 4 * ProbeInterval + AppearOffsetMs

\* Account i's worker has called connect(opts) in this cycle.
ConnectCalled(i) ==
  /\ wpc[i] \notin {"idle", "validating"}
  /\ outcome[i] # "invalid"

\* C10: in both modes every started worker of account i was given
\* proxies[i mod M] when the list has M > 0 entries and no proxy when it is
\* empty, and connect() was called with that proxy, or without the option.
C10_ProxyAssignment ==
  \A i \in Accounts :
    LET m == Len(proxies) IN
    /\ wpc[i] # "idle" =>
         proxyArg[i] = (IF m = 0 THEN Undefined ELSE ProxyUrl((i % m) + 1))
    /\ ConnectCalled(i) =>
         optsProxy[i] = (IF m = 0 THEN Undefined ELSE ProxyUrl((i % m) + 1))
    /\ session[i] # "none" => ConnectCalled(i)

C10_Witness ==
  /\ N = 2
  /\ Len(proxies) = 1
  /\ session[1] = "open"
  /\ optsProxy[1] = ProxyUrl(1)

\* C11: a call of _handleError(err) with a handler returning makes the call
\* return with the handler invoked on err; with a handler raising it raises
\* the handler's error; with no handler it raises err itself, unchanged, at
\* every level it passes through.  No call of _handleError changes a counter:
\* only a worker's completion and the reset before the cooldown do.
C11_HandleErrorContract ==
  /\ [](\A i \in Accounts :
          /\ errorLog = "absent" =>
               /\ handlerCalls[i] = 0
               /\ handlerArg[i] = "none"
               /\ workerErr[i] # "none" => (hs[i] = "rejected" /\ err[i] = workerErr[i])
               /\ (cycleP = "rejected" /\ seqI = i) => cycleErr = workerErr[i]
               /\ (pc = "thrown" /\ seqI = i) => thrownErr = workerErr[i]
          /\ errorLog = "returns" =>
               /\ hs[i] # "rejected"
               /\ err[i] = "none"
               /\ handlerArg[i] = workerErr[i]
               /\ handlerCalls[i] = (IF workerErr[i] = "none" THEN 0 ELSE 1)
               /\ pc # "thrown"
          /\ errorLog = "mayRaise" =>
               /\ err[i] \in {"none", "HandlerError"}
               /\ hs[i] = "rejected" => handlerCalls[i] >= 1
               /\ handlerCalls[i] = 1 => handlerArg[i] = workerErr[i]
               /\ handlerCalls[i] > 1 => handlerArg[i] = "HandlerError"
               /\ cycleErr \in {"none", "HandlerError"}
               /\ thrownErr \in {"none", "HandlerError"})
  /\ [][(outcome' = outcome /\ pc' # "sleep") => stats' = stats]_vars

C11_Witness ==
  /\ errorLog = "absent"
  /\ ~runInParallel
  /\ pc = "thrown"
  /\ thrownErr = "TokenError"
  /\ session[0] = "closed"
  /\ stats.failed = 1

\* C12: in serial and in concurrent mode alike, once the configured handler
\* has raised when invoked for an account's error (the promise of that
\* account's _handleSingle is rejected), the loop stops: the cooldown sleep is
\* never reached in that cycle.
C12_HandlerFailureIsFatal ==
  \A i \in Accounts :
    (errorLog = "mayRaise" /\ hs[i] = "rejected" /\ workerErr[i] # "none")
      => pc # "sleep"

\* C13: under normal operation autovoteBot() never throws or returns, a
\* dispatch phase always leads to its cooldown and a cooldown always leads to
\* the next dispatch phase: cycles follow one another forever.
C13_LoopForever ==
  /\ [](pc # "thrown")
  /\ (pc = "init") ~> (pc = "dispatch")
  /\ (pc = "dispatch") ~> (pc = "sleep")
  /\ (pc = "sleep") ~> (pc = "dispatch")
  /\ []<>(pc = "dispatch" /\ lastLog.kind = "start")
  /\ []<>(pc = "sleep" /\ lastLog.kind = "complete")

\* A second cycle has begun after a first one that ran to its end.
C13_Witness ==
  /\ N = 1
  /\ pc = "dispatch"
  /\ wpc[0] = "validating"
  /\ timeouts = 1
  /\ orphans = 0

\* C14: a worker whose credential check is not ok or raised goes from the
\* check straight to Done: in that one step invalid grows by one and success
\* and failed stay as they are, no browser session exists for the account and
\* connect() was never called for it, and the error it built is 'Invalid
\* token', handed to _handleError (to the handler when there is one), whether
\* that call returned or raised.
C14_InvalidCredential ==
  /\ [](\A i \in Accounts :
          /\ (outcome[i] = "invalid") <=> (workerErr[i] = "InvalidToken")
          /\ outcome[i] = "invalid" =>
               /\ wpc[i] = "done"
               /\ session[i] = "none"
               /\ optsProxy[i] = Undefined
               /\ status[i] = "none"
               /\ hs[i] \in {"fulfilled", "rejected"}
               /\ errorLog = "absent" => (hs[i] = "rejected" /\ err[i] = "InvalidToken")
               /\ errorLog # "absent" => handlerCalls[i] >= 1
               /\ handlerCalls[i] = 1 => handlerArg[i] = "InvalidToken")
  /\ [][\A i \in Accounts :
          (outcome[i] = "none" /\ outcome'[i] = "invalid") =>
            /\ wpc[i] = "validating"
            /\ wpc'[i] = "done"
            /\ stats' = [stats EXCEPT !.invalid = @ + 1]
            /\ timeouts' = timeouts]_vars

C14_Witness ==
  /\ errorLog = "mayRaise"
  /\ pc = "dispatch"
  /\ outcome[0] = "invalid"
  /\ hs[0] = "rejected"
  /\ err[0] = "HandlerError"
  /\ stats.invalid = 1
  /\ stats.success = 0
  /\ stats.failed = 0

\* C15 as stated: when the cleanup of a worker whose session raised runs (the
\* worker is suspended in await browser.close() with the error pending),
\* failed has already been incremented for it and the wrapped error has
\* already been built and passed on.
C15_CountedBeforeCleanup ==
  \A i \in Accounts :
    (wpc[i] = "closing" /\ ret[i] = "throw") =>
      (outcome[i] = "failed" /\ workerErr[i] = "TokenError")

\* C15, amended: failed is incremented and the wrapped error is passed to
\* _handleError only after the worker's browser.close() has settled.  While a
\* session is open or being closed its account has counted nothing, built no
\* error and caused no handler invocation; an account with a wrapped error has
\* counted failed and has no session (connect failed) or a session whose
\* close has settled.
C15_CountedAfterCleanup ==
  \A i \in Accounts :
    /\ (wpc[i] = "closing" \/ session[i] = "open") =>
         /\ outcome[i] = "none"
         /\ workerErr[i] = "none"
         /\ handlerCalls[i] = 0
         /\ hs[i] = "pending"
    /\ wpc[i] = "closing" => session[i] = "open"
    /\ workerErr[i] = "TokenError" =>
         /\ outcome[i] = "failed"
         /\ wpc[i] = "done"
         /\ session[i] \in {"none", "closed", "closeFailed"}
         /\ errorLog # "absent" => handlerCalls[i] >= 1

C15_Witness ==
  /\ errorLog = "returns"
  /\ workerErr[0] = "TokenError"
  /\ handlerArg[0] = "TokenError"
  /\ session[0] = "closed"
  /\ status[0] = "vote"
  /\ stats.failed = 1

\* C16 as stated: the counters are zero when a dispatch phase starts (the
\* "Starting cycle" snapshot), and during the cooldown sleep they still hold
\* the values the finished cycle logged.
C16_ResetDispatchLogSleep ==
  /\ lastLog.kind = "start" => Sum(lastLog) = 0
  /\ pc = "sleep" =>
       /\ stats.success = lastLog.success
       /\ stats.failed = lastLog.failed
       /\ stats.invalid = lastLog.invalid

\* C16, amended: an iteration dispatches, logs, resets and sleeps, in this
\* order.  The counters are zero when a dispatch phase starts; the step that
\* ends a dispatch phase logs the counters as the cycle left them and then
\* zeroes them, so they are zero throughout the cooldown sleep while the
\* "Cycle complete" line holds the finished cycle's values.
C16_DispatchLogResetSleep ==
  /\ [](/\ lastLog.kind = "start" => Sum(lastLog) = 0
        /\ pc \in {"init", "sleep"} => Sum(stats) = 0
        /\ pc = "sleep" =>
             /\ lastLog.kind = "complete"
             /\ Sum(lastLog) >= 1
             /\ ~aborted => Sum(lastLog) = stats.total)
  /\ [][(pc = "dispatch" /\ pc' = "sleep") =>
          /\ lastLog' = [kind |-> "complete", success |-> stats.success,
                         failed |-> stats.failed, invalid |-> stats.invalid]
          /\ Sum(stats) >= 1
          /\ stats' = ZeroStats(N)]_vars

C16_Witness ==
  /\ pc = "sleep"
  /\ N = 2
  /\ lastLog.success = 1
  /\ lastLog.invalid = 1
  /\ stats.success = 0
  /\ stats.invalid = 0

\* C17 as stated: for a worker that is Done after its poller returned,
\* success was incremented if and only if the poller returned 'vote', and
\* after 'already' or 'timeout' failed was incremented with no error built
\* and no handler invocation.
C17_OutcomeByPollResult ==
  \A i \in Accounts :
    (wpc[i] = "done" /\ status[i] # "none") =>
      /\ (outcome[i] = "success") <=> (status[i] = "vote")
      /\ status[i] \in {"already", "timeout"} =>
           /\ outcome[i] = "failed"
           /\ workerErr[i] = "none"
           /\ handlerCalls[i] = 0

\* C17, amended: success is incremented only after the poller returned
\* 'vote'; after 'vote' the worker counts success when the click went
\* through, and failed with a wrapped error when the click raised; after
\* 'already' or 'timeout' it counts failed, builds no error, fulfils its
\* promise and causes no handler invocation.
C17_OutcomeByPollAndClick ==
  \A i \in Accounts :
    /\ outcome[i] = "success" =>
         /\ status[i] = "vote"
         /\ workerErr[i] = "none"
         /\ hs[i] = "fulfilled"
    /\ (wpc[i] = "done" /\ status[i] = "vote") =>
         \/ outcome[i] = "success"
         \/ outcome[i] = "failed" /\ workerErr[i] = "TokenError"
    /\ (wpc[i] = "done" /\ status[i] \in {"already", "timeout"}) =>
         /\ outcome[i] = "failed"
         /\ workerErr[i] = "none"
         /\ hs[i] = "fulfilled"
         /\ handlerCalls[i] = 0
         /\ handlerArg[i] = "none"

C17_Witness ==
  /\ N = 2
  /\ errorLog = "mayRaise"
  /\ wpc[0] = "done"
  /\ status[0] = "vote"
  /\ outcome[0] = "failed"
  /\ handlerCalls[0] = 1
  /\ wpc[1] = "done"
  /\ status[1] = "timeout"
  /\ outcome[1] = "failed"

\* C18: when await browser.close() settles, by closing the browser or by
\* raising, the worker completes with what was pending before the close, and
\* with nothing else: a pending true counts success, a pending false counts
\* failed, both with no error and no handler invocation, and a pending error
\* counts failed with the wrapped error of that original error.  The counter,
\* the error and the handler invocations do not depend on how the close went.
C18_CloseFailureDropped ==
  [][\A i \in Accounts :
       (wpc[i] = "closing" /\ wpc'[i] = "done") =>
         /\ session'[i] \in {"closed", "closeFailed"}
         /\ outcome'[i] = (IF ret[i] = "true" THEN "success" ELSE "failed")
         /\ workerErr'[i] = (IF ret[i] = "throw" THEN "TokenError" ELSE "none")
         /\ stats' = [stats EXCEPT ![outcome'[i]] = @ + 1]
         /\ ret[i] # "throw" =>
              /\ hs'[i] = "fulfilled"
              /\ handlerCalls'[i] = 0
              /\ handlerArg'[i] = "none"
         /\ ret[i] = "throw" =>
              /\ handlerCalls'[i] = HandlerInvoked
              /\ handlerArg'[i] = (IF HandlerInvoked = 1 THEN "TokenError" ELSE "none")]_vars

C18_Witness ==
  /\ errorLog = "mayRaise"
  /\ wpc[0] = "done"
  /\ session[0] = "closeFailed"
  /\ outcome[0] = "success"
  /\ hs[0] = "fulfilled"
  /\ handlerCalls[0] = 0

\* C19 as stated: in both modes and for every handler, the handler is invoked
\* at most once for an account in a cycle.
C19_AtMostOneInvocation == \A i \in Accounts : handlerCalls[i] <= 1

\* C19, amended: a handler that returns is invoked at most once for an
\* account in a cycle, and never for an account without an error.  A handler
\* that raises is invoked again with its own error at each enclosing level
\* the rejection reaches: at most twice in concurrent mode (_handleSingle,
\* then .catch) and at most three times in serial mode (_handleSingle, the
\* catch of _sequentialCycle, the catch of autovoteBot, the third only once
\* the cycle has rejected).
C19_InvocationsPerLevel ==
  \A i \in Accounts :
    /\ handlerCalls[i] <= (IF runInParallel THEN 2 ELSE 3)
    /\ errorLog = "absent" => handlerCalls[i] = 0
    /\ errorLog = "returns" => handlerCalls[i] <= 1
    /\ workerErr[i] = "none" => handlerCalls[i] = 0
    /\ handlerCalls[i] >= 2 =>
         /\ hs[i] = "rejected"
         /\ handlerArg[i] = "HandlerError"
    /\ handlerCalls[i] = 3 => (cycleP = "rejected" /\ seqI = i)

C19_Witness ==
  /\ ~runInParallel
  /\ errorLog = "mayRaise"
  /\ pc = "thrown"
  /\ workerErr[0] = "InvalidToken"
  /\ handlerCalls[0] = 3
  /\ thrownErr = "HandlerError"

\* Browsers that exist and have not been closed: the open sessions held by
\* workers and the browsers created by connect() calls that lost the race.
OpenBrowsers == Cardinality({i \in Accounts : session[i] = "open"}) + leaked

\* C20: in serial mode at most one browser is open at any instant; none is
\* open while the next account's worker has not yet created its own or during
\* the cooldown sleep.
C20_OneSessionAtATime ==
  ~runInParallel =>
    /\ OpenBrowsers <= 1
    /\ pc = "sleep" => OpenBrowsers = 0
    /\ \A i \in Accounts : wpc[i] \in {"validating", "connecting"} => OpenBrowsers = 0

====
